---- MODULE Spec2Model ----
(***************************************************************************)
(* Model of the content-matching tools of the repository:                  *)
(*   "dup": find_duplicate_files_simple.py / _v2.py / _v3.py               *)
(*          (scan one tree, keep the digests that have more than one path) *)
(*   "cmp": compare_resources.py / compare_resources_v2.py                 *)
(*          (scan two trees, keep the digests present in both)             *)
(*   "move": move_old_files.py                                             *)
(*          (move the files older than a timestamp to a new directory)     *)
(* A run is one execution of a tool's main().  The file system (the files  *)
(* of each root, their content, the files whose read fails, the order in   *)
(* which os.walk yields them) is chosen in Init; the actions are the steps *)
(* of main().                                                              *)
(*                                                                         *)
(* Strings are sequences: a hex digest is a sequence of hex digit values   *)
(* (0..15, compared as Python compares the characters '0'..'9','a'..'f'),  *)
(* the empty string is << >>, a path is << root, file name >>.             *)
(***************************************************************************)
EXTENDS Integers, Sequences, FiniteSets, TLC

\* ------------------------------------------------------------------ bounds
\* largest number of files of one run (all scanned roots together)
MaxFiles == 4
\* number of distinct file contents
NumContents == 2
\* number of hex digits of a digest (32 for hashlib.md5().hexdigest())
HexLen == 2
\* number of directories of a tree: the root itself and nested directories
NumDirs == 2
\* largest number of files of the source folder of move_old_files
MaxMoveFiles == 3
\* modification times and timestamps are 0..MaxTime
MaxTime == 1
\* the numbered siblings of the source folder that can exist are 2..MaxSibling
MaxSibling == 2
\* the base names of the preview images are 1..NumNames
NumNames == 2

VARIABLES
    tool,            \* "dup", "cmp" or "move": the script that runs
    rootKind,        \* rootKind[r]: "dir", "file" or "missing" (argument r)
    walk,            \* walk[r]: file names of root r in the order os.walk yields them
    content,         \* content[r][k]: content of file k of root r
    unreadable,      \* unreadable[r]: file names whose open/read raises in the scan
    denied,          \* denied[r]: first directory of root r whose listing fails
                     \*            (NumDirs when every directory can be listed)
    outDirExists,    \* the directory of the output file exists before the run
    pc,              \* position in main(): "start","scan","group","export","done";
                     \* in move_old_files: "m_start","m_collect","m_move","m_done"
    cur,             \* the root being scanned (1 or 2)
    i,               \* position of the scan in walk[cur]
    md5_dict,        \* md5_dict[r]: the index of root r, a Python dict (ordered)
    file_count,      \* the scan's counter
    duplicate_files, \* result of find_duplicate_files (a Python dict)
    results,         \* result of compare_directories (a list of tuples)
    report,          \* rows of the report file written by the export
    reportWritten,   \* a report file has been written
    outDirCreated,   \* os.makedirs(output_dir) has been called
    exit_status,     \* exit status of the process, -1 while it runs
    log,             \* messages printed so far
    fingerprinted,   \* paths on which calculate_md5 has been called
    open_handles,    \* file objects opened by calculate_md5 and not closed
    \* ---- the exports with preview images (find_duplicate_files_v3.py,
    \*      compare_resources_v2.py)
    previews,        \* TRUE when the export that ran inserts preview images
    temp_made,       \* the temporary thumbnail files created by the export
    temp_files,      \* the list temp_files of export_to_excel
    temp_exist,      \* the temporary thumbnail files that exist
    \* ---- move_old_files.py (the source folder is root 1)
    mtime,           \* mtime[k]: modification time of file k of the source folder
    timestamp,       \* the timestamp argument
    targetArg,       \* "none": no target given; "free"/"exists": a target is
                     \* given and does not exist / exists
    siblings,        \* the numbers c for which <source name><c> exists
    target_dir,      \* -1: not set; 0: the given target; c >= 2: <source name><c>
    files_to_move,   \* the list files_to_move
    j,               \* position of the move loop in files_to_move
    moved_count,     \* the counter moved_count
    at_source,       \* file names that exist in the source folder
    at_target,       \* paths << target, directory, name >> that exist
    made_dirs,       \* directories created under the target (0: the target itself)
    stat_failed,     \* file names whose os.path.getmtime raised
    move_failed      \* file names whose mkdir or shutil.move raised

vars == << tool, rootKind, walk, content, unreadable, denied, outDirExists, pc,
           cur, i, md5_dict, file_count, duplicate_files, results, report,
           reportWritten, outDirCreated, exit_status, log, fingerprinted,
           open_handles, previews, temp_made, temp_files, temp_exist, mtime, timestamp, targetArg, siblings, target_dir,
           files_to_move, j, moved_count, at_source, at_target, made_dirs,
           stat_failed, move_failed >>

\* the variables of the scan tools and those of move_old_files
scanvars == << md5_dict, file_count, duplicate_files, results, report,
               reportWritten, outDirCreated, fingerprinted, open_handles,
               outDirExists, unreadable, cur, previews, temp_made, temp_files,
               temp_exist >>
thumbvars == << previews, temp_made, temp_files, temp_exist >>
movevars == << mtime, timestamp, targetArg, siblings, target_dir, files_to_move,
               j, moved_count, at_source, at_target, made_dirs, stat_failed,
               move_failed >>

Roots == 1..2
Contents == 1..NumContents
RootKinds == {"dir", "file", "missing"}

\* ------------------------------------------------------------ Python values
\* None, as returned by calculate_md5 of the duplicate finders on failure
NoneValue == << -1 >>
\* "", as returned by calculate_md5 of the comparison tools on failure
EmptyString == << >>

\* variant: the test of the digest is missing
Truthy_always(v) == TRUE

\* `if md5_value:` -- None and "" are false, any other string is true
Truthy(v) == v /= NoneValue /\ Len(v) > 0

\* Python's < on two strings: lexicographic on the characters
RECURSIVE StrLess(_, _)
StrLess(a, b) ==
    IF Len(b) = 0 THEN FALSE
    ELSE IF Len(a) = 0 THEN TRUE
    ELSE IF Head(a) /= Head(b) THEN Head(a) < Head(b)
    ELSE StrLess(Tail(a), Tail(b))

\* the least string of a non-empty set of strings
MinStr(S) == CHOOSE x \in S : \A y \in S : y = x \/ StrLess(x, y)

\* variant: sorted(S, reverse=True)
MaxStr(S) == CHOOSE x \in S : \A y \in S : y = x \/ StrLess(y, x)
RECURSIVE Sorted_desc(_)
Sorted_desc(S) ==
    IF S = {} THEN << >>
    ELSE LET m == MaxStr(S) IN << m >> \o Sorted_desc(S \ {m})

\* sorted(S) of a set of strings
RECURSIVE Sorted(_)
Sorted(S) ==
    IF S = {} THEN << >>
    ELSE LET m == MinStr(S) IN << m >> \o Sorted(S \ {m})

\* a Python dict is the sequence of its << key, value >> items in insertion order
DictKeys(d) == { d[n][1] : n \in 1..Len(d) }
DictHas(d, k) == k \in DictKeys(d)
DictGet(d, k) == d[CHOOSE n \in 1..Len(d) : d[n][1] = k][2]

\* variant: a new key is created with [] and its first path is not appended
DictAppend_lost(d, k, p) ==
    IF \E n \in 1..Len(d) : d[n][1] = k
    THEN [n \in 1..Len(d) |-> IF d[n][1] = k THEN << k, Append(d[n][2], p) >> ELSE d[n]]
    ELSE Append(d, << k, << >> >>)

\* variant: md5_dict[k].insert(0, p)
DictAppend_front(d, k, p) ==
    IF \E n \in 1..Len(d) : d[n][1] = k
    THEN [n \in 1..Len(d) |-> IF d[n][1] = k THEN << k, << p >> \o d[n][2] >> ELSE d[n]]
    ELSE Append(d, << k, << p >> >>)

\* md5_dict[k].append(p), the key being created with [] when it is missing
DictAppend(d, k, p) ==
    IF DictHas(d, k)
    THEN [n \in 1..Len(d) |-> IF d[n][1] = k THEN << k, Append(d[n][2], p) >> ELSE d[n]]
    ELSE Append(d, << k, << p >> >>)

\* ------------------------------------------------------------- file system
\* the directory of file k: directory 0 is the root, the others are nested
DirOf(k) == (k - 1) % NumDirs

\* the files os.walk reaches in a tree of n files: os.walk is called without
\* onerror, so a directory whose listing fails is skipped silently, with all
\* that is nested in it (dn is the first such directory, NumDirs if none)
Visible(n, dn) == { k \in 1..n : DirOf(k) < dn }

\* variant: os.listdir, the files of the root directory only
WalksOf_toponly(n, dn) ==
    LET V == { k \in Visible(n, dn) : DirOf(k) = 0 }
    IN  { s \in [1..Cardinality(V) -> V] :
            \A a, b \in 1..Cardinality(V) : a /= b => s[a] /= s[b] }

\* the orders in which os.walk (top-down) can yield the files of a tree:
\* directory by directory, the files of one directory in any order
WalksOf(n, dn) ==
    LET V == Visible(n, dn)
    IN  { s \in [1..Cardinality(V) -> V] :
            /\ \A a, b \in 1..Cardinality(V) : a /= b => s[a] /= s[b]
            /\ \A a, b \in 1..Cardinality(V) : a < b => DirOf(s[a]) <= DirOf(s[b]) }

PathOf(r, k) == << r, k >>

\* hashlib.md5 of a content, as hexdigest(): HexLen hex digits
Md5Hex(c) == [k \in 1..HexLen |-> IF k = 1 THEN (8 * c) % 16 ELSE (c * (2 * k + 1) + k) % 16]

\* os.path.getsize
SizeOf(p) == 10 * content[p[1]][p[2]]

\* the value calculate_md5 returns on a failed read
FailValue(t) == IF t = "dup" THEN NoneValue ELSE EmptyString

\* variant: the file name is hashed with the content
calculate_md5_named(t, p) ==
    IF p[2] \in unreadable[p[1]] THEN FailValue(t)
    ELSE Md5Hex(content[p[1]][p[2]] + p[2])

\* variant: one md5 object is shared by all the calls, so that a digest
\* depends on the files hashed before
calculate_md5_shared(t, p) ==
    IF p[2] \in unreadable[p[1]] THEN FailValue(t)
    ELSE Md5Hex(content[p[1]][p[2]] + Cardinality(fingerprinted))

\* calculate_md5(file_path): the digest, or the failure value when open/read raises
calculate_md5(t, p) ==
    IF p[2] \in unreadable[p[1]] THEN FailValue(t) ELSE Md5Hex(content[p[1]][p[2]])

\* what calculate_md5 prints: one message with the path in the except branch
md5_messages(t, p) ==
    IF p[2] \in unreadable[p[1]] THEN << [kind |-> "read_fail", path |-> p] >> ELSE << >>

\* how a call of calculate_md5 can go: a file of `unreadable` raises in
\* open() or in a later f.read()
CallModes(p) == IF p[2] \in unreadable[p[1]] THEN {"open_fails", "read_fails"} ELSE {"ok"}

\* the file objects a call opens: none when open() itself raises
Opened(mode) == IF mode = "open_fails" THEN 0 ELSE 1

\* variant: f = open(...) ... f.close() without `with`: no close when read raises
HandlesLeft_noclose(mode) == IF mode = "read_fails" THEN 1 ELSE 0

\* the file objects still open when the call returns: the `with` block
\* closes the file on the normal path and on the exception path
HandlesLeft(mode) == 0

\* variant: open(file_path, 'wb'), which truncates the file
AfterRead_truncate(c, p) == [c EXCEPT ![p[1]][p[2]] = 0]

\* the contents of the files after calculate_md5(p): open(file_path, 'rb')
\* and f.read() change nothing
AfterRead(c, p) == c

\* ------------------------------------------------------------ the grouping
\* variant: len(paths) >= 1
FilterDuplicates_ge1(d) == SelectSeq(d, LAMBDA e : Len(e[2]) >= 1)

\* {md5: paths for md5, paths in md5_dict.items() if len(paths) > 1}
FilterDuplicates(d) == SelectSeq(d, LAMBDA e : Len(e[2]) > 1)

\* set(md5_dict1.keys()) & set(md5_dict2.keys())
CommonMd5(d1, d2) == DictKeys(d1) \cap DictKeys(d2)

\* variant: each side carries the first path of the digest only
BuildResults_firstonly(d1, d2) ==
    LET s == Sorted(CommonMd5(d1, d2))
    IN  [n \in 1..Len(s) |-> << s[n], << DictGet(d1, s[n])[1] >>, << DictGet(d2, s[n])[1] >> >>]

\* variant: the entries follow the key order of the first index, unsorted
BuildResults_d1order(d1, d2) ==
    LET s == SelectSeq(d1, LAMBDA e : DictHas(d2, e[1]))
    IN  [n \in 1..Len(s) |-> << s[n][1], s[n][2], DictGet(d2, s[n][1]) >>]

\* the result list of compare_directories, one tuple per common digest
BuildResults(d1, d2) ==
    LET s == Sorted(CommonMd5(d1, d2))
    IN  [n \in 1..Len(s) |-> << s[n], DictGet(d1, s[n]), DictGet(d2, s[n]) >>]

\* ----------------------------------------------------------------- exports
\* rows written by export_to_csv / export_to_excel of the duplicate finders:
\* one row per path, the group number counting the items of the dict from 1
RECURSIVE DupRows(_, _)
DupRows(d, g) ==
    IF g > Len(d) THEN << >>
    ELSE [n \in 1..Len(d[g][2]) |->
             [group_num |-> g, md5 |-> d[g][1], path |-> d[g][2][n],
              size |-> SizeOf(d[g][2][n])]]
         \o DupRows(d, g + 1)

Max(a, b) == IF a >= b THEN a ELSE b

\* rows written by export_to_excel of the comparison tools: for each result
\* max(len(files1), len(files2)) rows, number, digest and size on the first
RECURSIVE CmpRows(_, _)
CmpRows(res, idx) ==
    IF idx > Len(res) THEN << >>
    ELSE LET files1 == res[idx][2]
             files2 == res[idx][3]
         IN  [n \in 1..Max(Len(files1), Len(files2)) |->
                 [idx   |-> IF n = 1 THEN idx ELSE 0,
                  md5   |-> IF n = 1 THEN res[idx][1] ELSE EmptyString,
                  file1 |-> IF n <= Len(files1) THEN files1[n] ELSE EmptyString,
                  file2 |-> IF n <= Len(files2) THEN files2[n] ELSE EmptyString,
                  size  |-> IF n = 1 THEN SizeOf(files1[1]) ELSE 0]]
             \o CmpRows(res, idx + 1)

\* ------------------------------------------------------------- validation
\* os.path.exists / os.path.isdir of a root argument
Exists(kind) == kind /= "missing"
IsDir(kind) == kind = "dir"

\* variant: the comparison tools validate dir1 only
RootError_firstonly(t, kinds) ==
    IF t = "dup"
    THEN IF ~Exists(kinds[1]) \/ ~IsDir(kinds[1]) THEN 1 ELSE 0
    ELSE IF ~IsDir(kinds[1]) THEN 1 ELSE 0

\* the root that is rejected first, 0 when every root is accepted
RootError(t, kinds) ==
    IF t = "dup"
    THEN IF ~Exists(kinds[1]) \/ ~IsDir(kinds[1]) THEN 1 ELSE 0
    ELSE IF ~IsDir(kinds[1]) THEN 1
         ELSE IF ~IsDir(kinds[2]) THEN 2 ELSE 0

\* how the run ends on a rejected root: sys.exit(1) in find_duplicate_files,
\* a plain `return` from main() in the comparison tools
RootErrorStatus(t) == IF t = "dup" THEN 1 ELSE 0

Msg(kind, p) == [kind |-> kind, path |-> p]

\* ------------------------------------------------------------------- Init
\* a run of a scan tool: the kinds of the roots, the trees below them (their
\* directories that cannot be listed, the order of the walk, their files
\* that cannot be read, the content of the files) and the output directory.
\* A directory that cannot be listed holds a file; the content of a file
\* that is never read is 1.
ScanInit ==
    /\ tool \in {"dup", "cmp"}
    /\ rootKind \in [Roots -> RootKinds \cup {"none"}]
    /\ rootKind[1] /= "none"
    /\ (tool = "dup") <=> (rootKind[2] = "none")
    /\ \E n1, n2 \in 0..MaxFiles :
          /\ n1 + n2 <= MaxFiles
          /\ rootKind[1] /= "dir" => n1 = 0
          /\ rootKind[2] /= "dir" => n2 = 0
          /\ \E dn1, dn2 \in 0..NumDirs :
                /\ dn1 < NumDirs => Visible(n1, dn1) /= 1..n1
                /\ dn2 < NumDirs => Visible(n2, dn2) /= 1..n2
                /\ denied = << dn1, dn2 >>
                /\ \E w1 \in WalksOf(n1, dn1), w2 \in WalksOf(n2, dn2) :
                      walk = << w1, w2 >>
                /\ \E u1 \in SUBSET Visible(n1, dn1), u2 \in SUBSET Visible(n2, dn2) :
                      /\ unreadable = << u1, u2 >>
                      /\ \E c1 \in [1..n1 -> Contents], c2 \in [1..n2 -> Contents] :
                            /\ \A k \in ((1..n1) \ Visible(n1, dn1)) \cup u1 : c1[k] = 1
                            /\ \A k \in ((1..n2) \ Visible(n2, dn2)) \cup u2 : c2[k] = 1
                            /\ content = << c1, c2 >>
    /\ outDirExists \in BOOLEAN
    /\ pc = "start"
    /\ cur = 1
    /\ i = 1
    /\ md5_dict = << << >>, << >> >>
    /\ file_count = 0
    /\ duplicate_files = << >>
    /\ results = << >>
    /\ report = << >>
    /\ reportWritten = FALSE
    /\ outDirCreated = FALSE
    /\ exit_status = -1
    /\ log = << >>
    /\ fingerprinted = {}
    /\ open_handles = 0
    /\ previews = FALSE
    /\ temp_made = {}
    /\ temp_files = << >>
    /\ temp_exist = {}
    /\ mtime = << >>
    /\ timestamp = 0
    /\ targetArg = "none"
    /\ siblings = {}
    /\ target_dir = -1
    /\ files_to_move = << >>
    /\ j = 1
    /\ moved_count = 0
    /\ at_source = {}
    /\ at_target = {}
    /\ made_dirs = {}
    /\ stat_failed = {}
    /\ move_failed = {}

\* ---------------------------------------------------------------- actions
\* variant: the loop is left at the first failed fingerprint
NextPos_break(pos, v, n) == IF Truthy(v) THEN pos + 1 ELSE n + 1

\* the loop goes on with the next file whatever calculate_md5 returned
NextPos(pos, v, n) == pos + 1

\* main() up to the scan: the validation of the roots, and in the comparison
\* tools os.makedirs of the output directory, which precedes the scan
MainValidate ==
    /\ pc = "start"
    /\ LET bad == RootError(tool, rootKind)
       IN  IF bad /= 0
           THEN /\ pc' = "done"
                /\ exit_status' = RootErrorStatus(tool)
                /\ log' = Append(log, Msg("root_error", << bad, 0 >>))
                /\ UNCHANGED outDirCreated
           ELSE /\ pc' = "scan"
                /\ UNCHANGED exit_status
                /\ IF tool = "cmp" /\ ~outDirExists
                   THEN /\ outDirCreated' = TRUE
                        /\ log' = Append(log, Msg("mkdir", << 0, 0 >>))
                   ELSE UNCHANGED << outDirCreated, log >>
    /\ UNCHANGED movevars
    /\ UNCHANGED thumbvars
    /\ UNCHANGED << tool, rootKind, walk, content, unreadable, denied,
                    outDirExists, cur, i, md5_dict, file_count, duplicate_files,
                    results, report, reportWritten, fingerprinted,
                    open_handles >>

\* one iteration of `for filename in files` of the scan of root cur
ScanFile ==
    /\ pc = "scan"
    /\ i <= Len(walk[cur])
    /\ LET file_path == PathOf(cur, walk[cur][i])
           md5_value == calculate_md5(tool, file_path)
       IN  /\ fingerprinted' = fingerprinted \cup {file_path}
           /\ log' = log \o md5_messages(tool, file_path)
           /\ \E mode \in CallModes(file_path) :
                 open_handles' = open_handles + HandlesLeft(mode)
           /\ content' = AfterRead(content, file_path)
           /\ md5_dict' = IF Truthy(md5_value)
                          THEN [md5_dict EXCEPT ![cur] = DictAppend(@, md5_value, file_path)]
                          ELSE md5_dict
           /\ file_count' = IF tool = "dup" \/ Truthy(md5_value)
                            THEN file_count + 1 ELSE file_count
           /\ i' = NextPos(i, md5_value, Len(walk[cur]))
    /\ UNCHANGED movevars
    /\ UNCHANGED thumbvars
    /\ UNCHANGED << tool, rootKind, walk, unreadable, denied, outDirExists,
                    pc, cur, duplicate_files, results, report, reportWritten,
                    outDirCreated, exit_status >>

\* os.walk is exhausted: the comparison tools go on with the second root
EndScan ==
    /\ pc = "scan"
    /\ i > Len(walk[cur])
    /\ IF tool = "cmp" /\ cur = 1
       THEN /\ cur' = 2
            /\ i' = 1
            /\ file_count' = 0
            /\ UNCHANGED pc
       ELSE /\ pc' = "group"
            /\ UNCHANGED << cur, i, file_count >>
    /\ UNCHANGED movevars
    /\ UNCHANGED thumbvars
    /\ UNCHANGED << tool, rootKind, walk, content, unreadable, denied,
                    outDirExists, md5_dict, duplicate_files, results, report,
                    reportWritten, outDirCreated, exit_status, log, fingerprinted,
                    open_handles >>

\* the end of find_duplicate_files / compare_directories: the result
Group ==
    /\ pc = "group"
    /\ IF tool = "dup"
       THEN /\ duplicate_files' = FilterDuplicates(md5_dict[1])
            /\ UNCHANGED results
       ELSE /\ results' = BuildResults(md5_dict[1], md5_dict[2])
            /\ UNCHANGED duplicate_files
    /\ pc' = "export"
    /\ UNCHANGED movevars
    /\ UNCHANGED thumbvars
    /\ UNCHANGED << tool, rootKind, walk, content, unreadable, denied,
                    outDirExists, cur, i, md5_dict, file_count, report,
                    reportWritten, outDirCreated, exit_status, log, fingerprinted,
                    open_handles >>

\* variant: the export goes on with an empty result
ResultEmpty_never(res) == FALSE

\* `if not duplicate_files:` / `if results:` -- an empty dict or list is false
ResultEmpty(res) == Len(res) = 0

\* ---- the preview images of the exports
\* what happens to the preview of a group: the group has no image, or
\* create_thumbnail fails before a file exists ("open_fails"), or it fails in
\* img.save after NamedTemporaryFile has made the file ("save_fails",
\* compare_resources_v2), or the thumbnail is made and its insertion into
\* the sheet succeeds ("inserted") or raises ("insert_fails"); base is the
\* base name of the preview image, 0 without image.  The files of a group
\* have the same content; they are taken to be images all or none, so that
\* the preview image of a group with images is its first path.
ThumbOutcomes(t) ==
    {"open_fails", "inserted", "insert_fails"}
    \cup (IF t = "cmp" THEN {"save_fails"} ELSE {})

PreviewChoice(t) ==
    { [base |-> 0, outcome |-> "no_image"] }
    \cup { [base |-> b, outcome |-> o] :
              b \in (IF t = "dup" THEN 1..NumNames ELSE {1}), o \in ThumbOutcomes(t) }

\* the preview image of group g: the first image of paths (duplicate
\* finder), files1[0] (comparison)
PreviewPath(grs, g) == grs[g][2][1]

\* the choices for the groups grs: two images of one directory have
\* different base names
PreviewChoices(t, grs) ==
    { ch \in [1..Len(grs) -> PreviewChoice(t)] :
         \A g, h \in 1..Len(grs) :
            (g < h /\ ch[g].base > 0 /\ ch[g].base = ch[h].base)
                => DirOf(PreviewPath(grs, g)[2]) /= DirOf(PreviewPath(grs, h)[2]) }

\* the name of the thumbnail of group g: f"temp_thumb_{basename}.png" in the
\* working directory (find_duplicate_files_v3), a fresh name of
\* tempfile.NamedTemporaryFile (compare_resources_v2)
TempName(t, g, b) == IF t = "dup" THEN b ELSE NumNames + g

\* a file exists after create_thumbnail: when it returned the path; in
\* compare_resources_v2 also when img.save raised, the file having been
\* made by NamedTemporaryFile(delete=False) before
Created(t, o) ==
    o \in {"inserted", "insert_fails"} \/ (t = "cmp" /\ o = "save_fails")

\* the path is appended to temp_files: in find_duplicate_files_v3 as the
\* last statement of the try block that inserts the image, in
\* compare_resources_v2 before that try block
Tracked(t, o) ==
    IF t = "dup" THEN o = "inserted" ELSE o \in {"inserted", "insert_fails"}

\* the messages printed for the preview of a group
ThumbMsgs(o, p) ==
    IF o \in {"open_fails", "save_fails"} THEN << Msg("thumb_fail", p) >>
    ELSE IF o = "insert_fails" THEN << Msg("insert_fail", p) >>
    ELSE << >>

\* the thumbnails after the loop over the groups 1..g
RECURSIVE ThumbsAfter(_, _, _, _)
ThumbsAfter(t, grs, ch, g) ==
    IF g = 0 THEN [exist |-> {}, made |-> {}, temp_files |-> << >>, msgs |-> << >>]
    ELSE LET before == ThumbsAfter(t, grs, ch, g - 1)
             o == ch[g].outcome
             name == TempName(t, g, ch[g].base)
         IN  [exist      |-> IF Created(t, o) THEN before.exist \cup {name}
                             ELSE before.exist,
              made       |-> IF Created(t, o) THEN before.made \cup {name}
                             ELSE before.made,
              temp_files |-> IF Tracked(t, o) THEN Append(before.temp_files, name)
                             ELSE before.temp_files,
              msgs       |-> before.msgs \o ThumbMsgs(o, PreviewPath(grs, g))]

\* the loop `for temp_file in temp_files: os.remove(temp_file)`; the removal
\* of a file that is gone already raises, which is passed over
Cleanup(exist, tf) == exist \ { tf[n] : n \in 1..Len(tf) }

\* the export and the normal end of main(); the export is the one without
\* preview images or the one with them
Export ==
    /\ pc = "export"
    /\ LET grs == IF tool = "dup" THEN duplicate_files ELSE results
       IN  IF ResultEmpty(grs)
           THEN /\ log' = Append(log, Msg("empty", << 0, 0 >>))
                /\ UNCHANGED << report, reportWritten, outDirCreated >>
                /\ UNCHANGED thumbvars
           ELSE /\ outDirCreated' = IF tool = "dup" THEN ~outDirExists
                                    ELSE outDirCreated
                /\ report' = IF tool = "dup" THEN DupRows(duplicate_files, 1)
                             ELSE CmpRows(results, 1)
                /\ reportWritten' = TRUE
                /\ \E pv \in BOOLEAN :
                      \E ch \in (IF pv THEN PreviewChoices(tool, grs)
                                 ELSE { [g \in 1..Len(grs) |->
                                           [base |-> 0, outcome |-> "no_image"]] }) :
                         LET st == ThumbsAfter(tool, grs, ch, Len(grs))
                         IN  /\ previews' = pv
                             /\ temp_made' = st.made
                             /\ temp_files' = st.temp_files
                             /\ temp_exist' = Cleanup(st.exist, st.temp_files)
                             /\ log' = (IF tool = "dup" /\ ~outDirExists
                                        THEN Append(log, Msg("mkdir", << 0, 0 >>))
                                        ELSE log)
                                       \o st.msgs \o << Msg("saved", << 0, 0 >>) >>
    /\ pc' = "done"
    /\ exit_status' = 0
    /\ UNCHANGED movevars
    /\ UNCHANGED << tool, rootKind, walk, content, unreadable, denied,
                    outDirExists, cur, i, md5_dict, file_count, duplicate_files,
                    results, fingerprinted, open_handles >>

\* ---------------------------------------------------------- move_old_files
\* the loop of find_available_target_dir from counter c: the first number
\* from c on whose directory does not exist
RECURSIVE FirstFree(_, _)
FirstFree(c, S) == IF c \notin S THEN c ELSE FirstFree(c + 1, S)

\* variant: the counter starts one too high
find_available_target_dir_from3(S) == FirstFree(3, S)

\* find_available_target_dir(source_dir): counter = 2, then the loop
find_available_target_dir(S) == FirstFree(2, S)

\* variant: the existence of a given target is not tested
MoveReject_notarget(kind, targ) ==
    IF ~Exists(kind) THEN "no_source"
    ELSE IF ~IsDir(kind) THEN "not_dir"
    ELSE "ok"

\* the tests at the head of move_old_files: the error reported, or "ok"
MoveReject(kind, targ) ==
    IF ~Exists(kind) THEN "no_source"
    ELSE IF ~IsDir(kind) THEN "not_dir"
    ELSE IF targ = "exists" THEN "target_exists"
    ELSE "ok"

\* `if file_mtime < float(timestamp)`
IsOld(m, ts) == m < ts

\* variant: only the name of the file is kept
TargetPath_flat(td, k) == << td, 0, k >>

\* target_dir / file_path.relative_to(source_dir): the directory and the
\* name of the file are kept under the target
TargetPath(td, k) == << td, DirOf(k), k >>

\* target_path.parent.mkdir(parents=True, exist_ok=True): the target and
\* the chain of directories down to the directory of the file
ParentsOf(k) == 0..DirOf(k)

\* variant: every attempt is counted
CountAfter_attempts(c, outcome) == c + 1

\* moved_count after an iteration of the move loop: `moved_count += 1` is
\* the last statement of the try block
CountAfter(c, outcome) == IF outcome = "moved" THEN c + 1 ELSE c

\* variant: the directories of the whole source tree are made at the target
DirsAfter_mirror(made, k, outcome) == 0..(NumDirs - 1)

\* the directories that exist under the target after an iteration of the
\* move loop: mkdir(parents=True, exist_ok=True) is the first call that can
\* raise
DirsAfter(made, k, outcome) ==
    IF outcome = "mkdir_raises" THEN made ELSE made \cup ParentsOf(k)

\* a run of move_old_files: the kind of the source folder, its tree, the
\* modification times, the timestamp, the target argument and the numbered
\* siblings of the source folder that exist
MoveInit ==
    /\ tool = "move"
    /\ \E kind \in RootKinds : rootKind = << kind, "none" >>
    /\ \E n \in 0..MaxMoveFiles :
          /\ rootKind[1] /= "dir" => n = 0
          /\ \E dn \in 0..NumDirs :
                /\ dn < NumDirs => Visible(n, dn) /= 1..n
                /\ denied = << dn, NumDirs >>
                /\ \E w \in WalksOf(n, dn) : walk = << w, << >> >>
                /\ \E m \in [1..n -> 0..MaxTime] :
                      /\ \A k \in (1..n) \ Visible(n, dn) : m[k] = 0
                      /\ mtime = m
          /\ content = << [k \in 1..n |-> 1], << >> >>
          /\ at_source = 1..n
    /\ timestamp \in 0..MaxTime
    /\ targetArg \in {"none", "free", "exists"}
    /\ siblings \in SUBSET (2..MaxSibling)
    /\ targetArg /= "none" => siblings = {}
    /\ unreadable = << {}, {} >>
    /\ outDirExists = TRUE
    /\ pc = "m_start"
    /\ cur = 1
    /\ i = 1
    /\ md5_dict = << << >>, << >> >>
    /\ file_count = 0
    /\ duplicate_files = << >>
    /\ results = << >>
    /\ report = << >>
    /\ reportWritten = FALSE
    /\ outDirCreated = FALSE
    /\ exit_status = -1
    /\ log = << >>
    /\ fingerprinted = {}
    /\ open_handles = 0
    /\ previews = FALSE
    /\ temp_made = {}
    /\ temp_files = << >>
    /\ temp_exist = {}
    /\ target_dir = -1
    /\ files_to_move = << >>
    /\ j = 1
    /\ moved_count = 0
    /\ at_target = {}
    /\ made_dirs = {}
    /\ stat_failed = {}
    /\ move_failed = {}

Init == ScanInit \/ MoveInit

\* move_old_files up to the scan: the tests of the source and of the
\* target, and the choice of the target directory
MoveValidate ==
    /\ pc = "m_start"
    /\ LET err == MoveReject(rootKind[1], targetArg)
       IN  IF err /= "ok"
           THEN /\ log' = Append(log, Msg(err, << 0, 0 >>))
                /\ pc' = "m_done"
                /\ exit_status' = 0
                /\ UNCHANGED target_dir
           ELSE /\ target_dir' = IF targetArg = "none"
                                 THEN find_available_target_dir(siblings) ELSE 0
                /\ pc' = "m_collect"
                /\ UNCHANGED << log, exit_status >>
    /\ UNCHANGED scanvars
    /\ UNCHANGED << tool, rootKind, walk, content, denied, i, mtime, timestamp,
                    targetArg, siblings, files_to_move, j, moved_count,
                    at_source, at_target, made_dirs, stat_failed, move_failed >>

\* one iteration of `for file in files` of the scan of the source folder;
\* os.path.getmtime returns the modification time or raises
CollectFile ==
    /\ pc = "m_collect"
    /\ i <= Len(walk[1])
    /\ LET k == walk[1][i]
       IN  \E raises \in BOOLEAN :
              IF raises
              THEN /\ stat_failed' = stat_failed \cup {k}
                   /\ log' = Append(log, Msg("stat_fail", PathOf(1, k)))
                   /\ UNCHANGED files_to_move
              ELSE /\ files_to_move' = IF IsOld(mtime[k], timestamp)
                                       THEN Append(files_to_move, k) ELSE files_to_move
                   /\ UNCHANGED << stat_failed, log >>
    /\ i' = i + 1
    /\ UNCHANGED scanvars
    /\ UNCHANGED << tool, rootKind, walk, content, denied, pc, exit_status, mtime,
                    timestamp, targetArg, siblings, target_dir, j, moved_count,
                    at_source, at_target, made_dirs, move_failed >>

\* os.walk is exhausted: `if not files_to_move: ... return`
EndCollect ==
    /\ pc = "m_collect"
    /\ i > Len(walk[1])
    /\ IF Len(files_to_move) = 0
       THEN /\ log' = Append(log, Msg("none_found", << 0, 0 >>))
            /\ pc' = "m_done"
            /\ exit_status' = 0
       ELSE /\ pc' = "m_move"
            /\ UNCHANGED << log, exit_status >>
    /\ UNCHANGED scanvars
    /\ UNCHANGED << tool, rootKind, walk, content, denied, i, mtime, timestamp,
                    targetArg, siblings, target_dir, files_to_move, j,
                    moved_count, at_source, at_target, made_dirs, stat_failed,
                    move_failed >>

\* one iteration of `for file_path in files_to_move`: mkdir of the parent
\* and shutil.move, each of which can raise
MoveFile ==
    /\ pc = "m_move"
    /\ j <= Len(files_to_move)
    /\ LET k == files_to_move[j]
       IN  \E outcome \in {"moved", "mkdir_raises", "move_raises"} :
              /\ made_dirs' = DirsAfter(made_dirs, k, outcome)
              /\ moved_count' = CountAfter(moved_count, outcome)
              /\ IF outcome = "moved"
                 THEN /\ at_source' = at_source \ {k}
                      /\ at_target' = at_target \cup { TargetPath(target_dir, k) }
                      /\ log' = Append(log, Msg("moved", PathOf(1, k)))
                      /\ UNCHANGED move_failed
                 ELSE /\ move_failed' = move_failed \cup {k}
                      /\ log' = Append(log, Msg("move_fail", PathOf(1, k)))
                      /\ UNCHANGED << at_source, at_target >>
    /\ j' = j + 1
    /\ UNCHANGED scanvars
    /\ UNCHANGED << tool, rootKind, walk, content, denied, pc, i, exit_status,
                    mtime, timestamp, targetArg, siblings, target_dir,
                    files_to_move, stat_failed >>

\* the end of move_old_files
EndMove ==
    /\ pc = "m_move"
    /\ j > Len(files_to_move)
    /\ log' = Append(log, Msg("finished", << 0, moved_count >>))
    /\ pc' = "m_done"
    /\ exit_status' = 0
    /\ UNCHANGED scanvars
    /\ UNCHANGED << tool, rootKind, walk, content, denied, i, mtime, timestamp,
                    targetArg, siblings, target_dir, files_to_move, j,
                    moved_count, at_source, at_target, made_dirs, stat_failed,
                    move_failed >>

Next ==
    \/ MainValidate \/ ScanFile \/ EndScan \/ Group \/ Export
    \/ MoveValidate \/ CollectFile \/ EndCollect \/ MoveFile \/ EndMove

Spec == Init /\ [][Next]_vars

TypeOK ==
    /\ pc \in {"start", "scan", "group", "export", "done",
              "m_start", "m_collect", "m_move", "m_done"}
    /\ tool \in {"dup", "cmp", "move"}
    /\ timestamp \in 0..MaxTime
    /\ \A k \in 1..Len(mtime) : mtime[k] \in 0..MaxTime
    /\ targetArg \in {"none", "free", "exists"}
    /\ siblings \subseteq 2..MaxSibling
    /\ target_dir \in -1..(MaxSibling + 1)
    /\ moved_count \in 0..MaxMoveFiles
    /\ at_source \subseteq 1..MaxMoveFiles
    /\ made_dirs \subseteq 0..(NumDirs - 1)
    /\ stat_failed \subseteq 1..MaxMoveFiles
    /\ move_failed \subseteq 1..MaxMoveFiles
    /\ cur \in Roots
    /\ exit_status \in {-1, 0, 1}
    /\ previews \in BOOLEAN
    /\ temp_made \subseteq 1..(NumNames + MaxFiles)
    /\ temp_exist \subseteq temp_made
    /\ \A n \in 1..Len(temp_files) : temp_files[n] \in temp_made

\* ---------------------------------------------------------- auxiliaries
SeqSet(s) == { s[n] : n \in 1..Len(s) }

\* the roots the tool is given
UsedRoots == IF tool = "cmp" THEN {1, 2} ELSE {1}

\* the paths of the tree of root r
TreeFiles(r) == { PathOf(r, walk[r][n]) : n \in 1..Len(walk[r]) }

\* the readable files of root r whose content has digest d
GoodPathsOf(r, d) ==
    { p \in TreeFiles(r) : p[2] \notin unreadable[r] /\ Md5Hex(content[r][p[2]]) = d }

\* every value that can be a key of an index
AllKeys == { Md5Hex(c) : c \in Contents } \cup { NoneValue, EmptyString }

AnyRootInvalid == tool \in {"dup", "cmp"} /\ \E r \in UsedRoots : rootKind[r] /= "dir"

\* the grouping result has been returned
Grouped == pc \in {"export", "done"} /\ ~AnyRootInvalid

\* position of file name k in the traversal of root r
PosInWalk(r, k) == CHOOSE n \in 1..Len(walk[r]) : walk[r][n] = k

\* the number of items of dict d whose key is k
KeyCount(d, k) == Cardinality({ n \in 1..Len(d) : d[n][1] = k })

\* the keys of a dict or the digests of a result list, in order
FirstsOf(d) == [n \in 1..Len(d) |-> d[n][1]]

StrictlyAscending(s) == \A a, b \in 1..Len(s) : a < b => StrLess(s[a], s[b])

\* --------------------------------------------------------------------- C1
\* C1: the result of find_duplicate_files has a group for digest d exactly
\* when at least two readable files of the scanned tree have digest d; a
\* digest with one path never appears, each digest appears once, and the
\* group's list is the complete list of the paths indexed under d.
C1_DuplicateCorrectness ==
    (tool = "dup" /\ Grouped) =>
        \A d \in AllKeys :
            /\ DictHas(duplicate_files, d) <=> Cardinality(GoodPathsOf(1, d)) >= 2
            /\ KeyCount(duplicate_files, d) <= 1
            /\ DictHas(duplicate_files, d) =>
                  /\ DictGet(duplicate_files, d) = DictGet(md5_dict[1], d)
                  /\ SeqSet(DictGet(duplicate_files, d)) = GoodPathsOf(1, d)
                  /\ Len(DictGet(duplicate_files, d)) = Cardinality(GoodPathsOf(1, d))

\* a tree with a duplicated digest, a digest of one file (dropped) and an
\* unreadable file, after the grouping
C1_Witness ==
    /\ tool = "dup" /\ pc = "export"
    /\ Len(duplicate_files) = 1
    /\ \E d \in AllKeys : Cardinality(GoodPathsOf(1, d)) = 1 /\ ~DictHas(duplicate_files, d)
    /\ unreadable[1] /= {}

\* --------------------------------------------------------------------- C2
\* C2: the result of compare_directories has an entry for digest d exactly
\* when d is a key of the index of dir1 and of the index of dir2; the entry
\* carries the full path list of d of each index; a digest of one side only
\* is absent.
C2_MatchingCorrectness ==
    (tool = "cmp" /\ Grouped) =>
        /\ \A d \in AllKeys :
              (d \in SeqSet(FirstsOf(results))) <=>
                  (DictHas(md5_dict[1], d) /\ DictHas(md5_dict[2], d))
        /\ \A n \in 1..Len(results) :
              /\ results[n][2] = DictGet(md5_dict[1], results[n][1])
              /\ results[n][3] = DictGet(md5_dict[2], results[n][1])
              /\ SeqSet(results[n][2]) = GoodPathsOf(1, results[n][1])
              /\ SeqSet(results[n][3]) = GoodPathsOf(2, results[n][1])

\* two trees with a common digest that has two paths on one side, and a
\* digest present on one side only
C2_Witness ==
    /\ tool = "cmp" /\ pc = "export"
    /\ Len(results) = 1
    /\ Len(results[1][2]) + Len(results[1][3]) = 3
    /\ \E d \in AllKeys : DictHas(md5_dict[1], d) /= DictHas(md5_dict[2], d)

\* --------------------------------------------------------------------- C3
\* C3: the list returned by compare_directories is strictly ascending by
\* digest (each digest once), whatever the traversal order of the trees and
\* the insertion order of the indexes.
C3_ResultsAscending ==
    (tool = "cmp" /\ pc \in {"export", "done"}) => StrictlyAscending(FirstsOf(results))

\* two common digests, inserted into the index of dir1 in descending order
C3_Witness ==
    /\ tool = "cmp" /\ pc = "export"
    /\ Len(results) = 2
    /\ StrLess(md5_dict[1][2][1], md5_dict[1][1][1])

\* --------------------------------------------------------------------- C4
\* C4: the groups returned by find_duplicate_files, and the group numbers
\* of the exported rows, are in ascending order of digest, independent of
\* the order in which the files were traversed.
C4_DupGroupsAscending ==
    (tool = "dup" /\ pc \in {"export", "done"}) =>
        /\ StrictlyAscending(FirstsOf(duplicate_files))
        /\ \A a, b \in 1..Len(report) :
              report[a].group_num < report[b].group_num =>
                  StrLess(report[a].md5, report[b].md5)

\* --------------------------------------------------------------------- C5
\* C5: at every point of a scan the index has no "" and no None key, a path
\* whose fingerprint failed is in no path list, and every path of the index
\* has been read successfully during this scan.
C5_IndexExclusion ==
    \A r \in Roots : \A n \in 1..Len(md5_dict[r]) :
        /\ md5_dict[r][n][1] /= EmptyString
        /\ md5_dict[r][n][1] /= NoneValue
        /\ \A p \in SeqSet(md5_dict[r][n][2]) :
              /\ p \in TreeFiles(r)
              /\ p[2] \notin unreadable[r]
              /\ p \in fingerprinted

\* the scan has gone past an unreadable file and has indexed another file
C5_Witness ==
    /\ pc = "scan"
    /\ \E p \in fingerprinted : p[2] \in unreadable[p[1]]
    /\ \E r \in Roots : Len(md5_dict[r]) > 0

\* --------------------------------------------------------------------- C6
\* the index a scan builds from the file names s of root r, all readable
RECURSIVE IndexOfFiles(_, _)
IndexOfFiles(r, s) ==
    IF Len(s) = 0 THEN << >>
    ELSE DictAppend(IndexOfFiles(r, SubSeq(s, 1, Len(s) - 1)),
                    Md5Hex(content[r][s[Len(s)]]), PathOf(r, s[Len(s)]))

\* the traversal of root r without the files whose read fails
ReadableWalk(r) == SelectSeq(walk[r], LAMBDA k : k \notin unreadable[r])

\* the number of path-list positions of dict d that hold path p
Occurrences(d, p) ==
    Cardinality({ x \in (1..Len(d)) \X (1..MaxFiles) :
                     x[2] <= Len(d[x[1]][2]) /\ d[x[1]][2][x[2]] = p })

\* C6: a failing fingerprint does not stop the scan: when the scan has
\* ended every file of the traversal has been visited, a failing file is
\* in no list, every other file (before or after it) is once in the list of
\* its digest, and the index is the one the tree without the failing files
\* gives.
C6_PartialFailureTolerance ==
    (pc \in {"group", "export", "done"} /\ ~AnyRootInvalid) =>
        \A r \in UsedRoots :
            /\ TreeFiles(r) \subseteq fingerprinted
            /\ \A p \in TreeFiles(r) :
                  IF p[2] \in unreadable[r]
                  THEN Occurrences(md5_dict[r], p) = 0
                  ELSE /\ Occurrences(md5_dict[r], p) = 1
                       /\ DictHas(md5_dict[r], Md5Hex(content[r][p[2]]))
                       /\ p \in SeqSet(DictGet(md5_dict[r], Md5Hex(content[r][p[2]])))
            /\ md5_dict[r] = IndexOfFiles(r, ReadableWalk(r))

\* one file fails, in the middle of the traversal, and the scan has ended
C6_Witness ==
    /\ pc = "group"
    /\ Cardinality(unreadable[1]) = 1
    /\ \E n \in 2..(Len(walk[1]) - 1) : walk[1][n] \in unreadable[1]
    /\ Len(md5_dict[1]) > 0

\* --------------------------------------------------------------------- C7
\* C7: every group of the duplicate mode has more than one path; every
\* entry of the cross-tree mode has a non-empty list for dir1 and for dir2.
C7_GroupShape ==
    /\ \A n \in 1..Len(duplicate_files) : Len(duplicate_files[n][2]) > 1
    /\ \A n \in 1..Len(results) : Len(results[n][2]) >= 1 /\ Len(results[n][3]) >= 1

\* a cross-tree entry whose two lists differ in length
C7_Witness ==
    /\ tool = "cmp" /\ pc = "done"
    /\ \E n \in 1..Len(results) : Len(results[n][2]) /= Len(results[n][3])

\* --------------------------------------------------------------------- C8
\* the paths of list s of root r are in the order of the traversal
InWalkOrder(r, s) ==
    \A a, b \in 1..Len(s) : a < b => PosInWalk(r, s[a][2]) < PosInWalk(r, s[b][2])

\* C8: in every path list of an index and of a returned group the paths
\* are in scan-discovery order, and the grouping keeps the list as it is.
C8_DiscoveryOrder ==
    /\ \A r \in Roots : \A n \in 1..Len(md5_dict[r]) : InWalkOrder(r, md5_dict[r][n][2])
    /\ \A n \in 1..Len(duplicate_files) :
          /\ InWalkOrder(1, duplicate_files[n][2])
          /\ duplicate_files[n][2] = DictGet(md5_dict[1], duplicate_files[n][1])
    /\ \A n \in 1..Len(results) :
          /\ InWalkOrder(1, results[n][2])
          /\ InWalkOrder(2, results[n][3])

\* a returned group whose first path has a greater name than its second
C8_Witness ==
    /\ tool = "dup" /\ pc = "export"
    /\ \E n \in 1..Len(duplicate_files) :
          duplicate_files[n][2][1][2] > duplicate_files[n][2][2][2]

\* --------------------------------------------------------------------- C9
\* C9: when a root is not an existing directory the run reports the error
\* and stops before any file of any root is fingerprinted, and it creates
\* no output directory and no report file.
C9_InvalidRoot ==
    AnyRootInvalid =>
        /\ pc \in {"start", "done"}
        /\ fingerprinted = {}
        /\ ~outDirCreated
        /\ ~reportWritten
        /\ pc = "done" => \E n \in 1..Len(log) : log[n].kind = "root_error"

\* the comparison has ended on an invalid second root, the first root being
\* a directory with files and the output directory missing
C9_Witness ==
    /\ tool = "cmp" /\ pc = "done"
    /\ rootKind[1] = "dir" /\ rootKind[2] /= "dir"
    /\ Len(walk[1]) > 0
    /\ ~outDirExists

\* -------------------------------------------------------------------- C10
\* C10: in every tool the exit status is a failure status when a root is
\* invalid, and per-file read failures never change it.
C10_ExitStatus ==
    pc = "done" =>
        /\ AnyRootInvalid => exit_status /= 0
        /\ ~AnyRootInvalid => exit_status = 0

\* -------------------------------------------------------------------- C11
\* the run has ended with zero groups
EndedEmpty ==
    /\ pc = "done" /\ ~AnyRootInvalid
    /\ \/ tool = "dup" /\ Len(duplicate_files) = 0
       \/ tool = "cmp" /\ Len(results) = 0

\* C11: when the scan or the match yields zero groups the run ends
\* normally, prints an informational message and writes no report file.
C11_EmptyResult ==
    EndedEmpty =>
        /\ exit_status = 0
        /\ ~reportWritten
        /\ report = << >>
        /\ \E n \in 1..Len(log) : log[n].kind = "empty"

\* a comparison of two trees with indexed files and no common digest
C11_Witness ==
    /\ EndedEmpty /\ tool = "cmp"
    /\ Len(md5_dict[1]) > 0 /\ Len(md5_dict[2]) > 0

\* -------------------------------------------------------------------- C12
\* the files of root r that have been fingerprinted with success
Fingerprinted(r) == { p \in fingerprinted : p[1] = r /\ p[2] \notin unreadable[r] }

\* p and q are in one path list of dict d
InOneList(d, p, q) == \E n \in 1..Len(d) : p \in SeqSet(d[n][2]) /\ q \in SeqSet(d[n][2])

\* C12: two files read with success that have the same content, whatever
\* their names and directories, are under the same digest: in the same
\* path list of the index of their tree (hence in the same duplicate
\* group), and in the same entry of the cross-tree result.
C12_ContentIndependence ==
    /\ \A r \in Roots : \A p, q \in Fingerprinted(r) :
          content[r][p[2]] = content[r][q[2]] =>
              /\ InOneList(md5_dict[r], p, q)
              /\ (tool = "dup" /\ Grouped /\ p /= q) => InOneList(duplicate_files, p, q)
    /\ (tool = "cmp" /\ Grouped) =>
          \A p \in Fingerprinted(1), q \in Fingerprinted(2) :
              content[1][p[2]] = content[2][q[2]] =>
                  \E n \in 1..Len(results) :
                      p \in SeqSet(results[n][2]) /\ q \in SeqSet(results[n][3])

\* a duplicate group that holds two files of different directories
C12_Witness ==
    /\ tool = "dup" /\ pc = "export"
    /\ \E p, q \in Fingerprinted(1) :
          /\ DirOf(p[2]) /= DirOf(q[2])
          /\ content[1][p[2]] = content[1][q[2]]
          /\ InOneList(duplicate_files, p, q)

\* -------------------------------------------------------------------- C13
\* the scan of every root has ended
Scanned == pc \in {"group", "export", "done"} /\ ~AnyRootInvalid

\* C13: after a scan every file whose fingerprint succeeded is in the index
\* exactly once (hence under one digest), the scan has reached the files of
\* every directory that can be listed, at any depth, and the index holds
\* paths of its own root only.
C13_ScanCompleteness ==
    Scanned =>
        \A r \in UsedRoots :
            /\ \A p \in Fingerprinted(r) : Occurrences(md5_dict[r], p) = 1
            /\ \A k \in Visible(Len(content[r]), denied[r]) :
                  PathOf(r, k) \in fingerprinted
            /\ \A n \in 1..Len(md5_dict[r]) : \A p \in SeqSet(md5_dict[r][n][2]) :
                  p[1] = r /\ p[2] \in 1..Len(content[r])

\* a scan that has indexed a file of the deepest directory and has met an
\* unreadable file
C13_Witness ==
    /\ pc = "group"
    /\ unreadable[1] /= {}
    /\ \E p \in Fingerprinted(1) :
          DirOf(p[2]) = NumDirs - 1 /\ Occurrences(md5_dict[1], p) = 1

\* -------------------------------------------------------------------- C14
\* the number of messages of calculate_md5 that name path p
FailMessages(p) ==
    Cardinality({ n \in 1..Len(log) : log[n].kind = "read_fail" /\ log[n].path = p })

\* C14: every file under a scanned root that is absent from the index has
\* been reported: one message per failed fingerprint, naming the path, and
\* no file is left out of the index without such a message.
C14_SkipReporting ==
    Scanned =>
        \A r \in UsedRoots : \A k \in 1..Len(content[r]) :
            /\ Occurrences(md5_dict[r], PathOf(r, k)) = 0 => FailMessages(PathOf(r, k)) = 1
            /\ Occurrences(md5_dict[r], PathOf(r, k)) > 0 => FailMessages(PathOf(r, k)) = 0

\* -------------------------------------------------------------------- C18
\* a step of the scan or of the grouping leaves the trees as they are
TreesKept == pc \in {"scan", "group"} => (content' = content /\ rootKind' = rootKind)

\* C18: from the start of a scan to the return of the grouping result the
\* scanned trees are not changed: the roots and the files and their
\* contents are the same after every step.
C18_NoMutation == [][TreesKept]_vars

\* the grouping has returned after a scan that has read files of two trees
C18_Witness ==
    /\ tool = "cmp" /\ pc = "export"
    /\ Fingerprinted(1) /= {} /\ Fingerprinted(2) /= {}

SameTree ==
    /\ tool = "cmp"
    /\ content[1] = content[2] /\ walk[1] = walk[2]
    /\ unreadable[1] = unreadable[2] /\ denied[1] = denied[2]

\* path list s with root r in place of the root of each path
Retag(s, r) == [n \in 1..Len(s) |-> PathOf(r, s[n][2])]

SourceFiles == 1..Len(mtime)

\* the run of move_old_files was not rejected and has ended
MoveEnded == tool = "move" /\ pc = "m_done" /\ rootKind[1] = "dir" /\ targetArg /= "exists"

\* the files shutil.move was called on, and those it moved
Moved == SourceFiles \ at_source
Attempted == Moved \cup move_failed

\* the outcome of the run for file k: it was handed to the move exactly when
\* its modification time is below the timestamp; a moved file is at the
\* target under its relative path and gone from the source; a file that is
\* not older stays
MoveOutcome(k) ==
    /\ (k \in Attempted) <=> (k \notin stat_failed /\ mtime[k] < timestamp)
    /\ k \in Moved => /\ << target_dir, DirOf(k), k >> \in at_target
                      /\ k \notin at_source
    /\ mtime[k] >= timestamp => /\ k \in at_source
                                /\ \A p \in at_target : p[3] /= k

\* C15: move_old_files moves a file under the source folder if and only if
\* its modification time is strictly less than the timestamp (a file whose
\* modification time equals or exceeds it stays in place), and each file whose
\* move succeeds ends at the target directory joined with its path relative
\* to the source folder and no longer exists at its source path.
C15_MoveOldFiles ==
    MoveEnded => \A k \in SourceFiles : MoveOutcome(k)

\* the same outcome for the files os.walk yields: it holds
C15_ListedFiles ==
    MoveEnded => \A k \in SeqSet(walk[1]) : MoveOutcome(k)

\* C16: without a target argument the target is the sibling of the source
\* folder named <source name><n> with n the smallest integer >= 2 whose
\* directory does not exist; the search returns (the numbered siblings being
\* finitely many) and the returned path does not exist when it is chosen.
C16_AvailableTarget ==
    (tool = "move" /\ pc /= "m_start" /\ rootKind[1] = "dir" /\ targetArg = "none")
        => /\ target_dir >= 2
           /\ target_dir \notin siblings
           /\ \A c \in 2..(target_dir - 1) : c \in siblings

C16_Witness ==
    /\ tool = "move" /\ pc = "m_done" /\ targetArg = "none"
    /\ 2 \in siblings
    /\ target_dir > 2
    /\ at_target /= {}

\* the input of move_old_files is one it rejects
Rejected ==
    tool = "move" /\ (rootKind[1] \in {"missing", "file"} \/ targetArg = "exists")

\* C17: when the source folder does not exist or is not a directory, or a
\* target directory is given and already exists, move_old_files prints an
\* error and returns: no file is moved and no directory is created.
C17_RejectInput ==
    Rejected =>
        /\ pc \in {"m_start", "m_done"}
        /\ at_source = SourceFiles
        /\ at_target = {}
        /\ made_dirs = {}
        /\ Len(files_to_move) = 0
        /\ pc = "m_done" =>
              /\ Len(log) = 1
              /\ log[1].kind = (IF rootKind[1] = "missing" THEN "no_source"
                                ELSE IF rootKind[1] = "file" THEN "not_dir"
                                ELSE "target_exists")

C17_Witness ==
    /\ tool = "move" /\ pc = "m_done"
    /\ rootKind[1] = "dir" /\ targetArg = "exists"
    /\ \E k \in SourceFiles : mtime[k] < timestamp

\* -------------------------------------------------------------------- C21
\* the result of compare_directories(dir2, dir1): the same two trees give
\* the same two indexes, handed to the matching in the other order
SwappedResults == BuildResults(md5_dict[2], md5_dict[1])

\* C21: compare_directories(dir1, dir2) and compare_directories(dir2, dir1)
\* return the same digests in the same order, and each entry of one is the
\* entry of the other with its two path lists swapped.
C21_Symmetry ==
    (tool = "cmp" /\ Grouped) =>
        /\ Len(SwappedResults) = Len(results)
        /\ \A n \in 1..Len(results) :
              /\ SwappedResults[n][1] = results[n][1]
              /\ SwappedResults[n][2] = results[n][3]
              /\ SwappedResults[n][3] = results[n][2]

\* two common digests that the two scans have met in opposite orders
C21_Witness ==
    /\ tool = "cmp" /\ pc = "export"
    /\ Len(results) = 2
    /\ md5_dict[1][1][1] /= md5_dict[2][1][1]

\* -------------------------------------------------------------------- C23
\* the counts that move_old_files reports at its end
ReportedCounts == { log[n].path[2] : n \in { m \in 1..Len(log) : log[m].kind = "finished" } }

\* C23: a failure to read the modification time of one file or to move one
\* file does not stop the processing of the other files (every file the scan
\* yields is examined and every old file among them is handed to the move),
\* the failing file stays at its source path, and the reported count is the
\* number of files moved.
C23_FailureTolerance ==
    MoveEnded =>
        /\ \A k \in SeqSet(walk[1]) :
              (k \notin stat_failed /\ mtime[k] < timestamp) => k \in Attempted
        /\ \A k \in stat_failed \cup move_failed : k \in at_source
        /\ \A c \in ReportedCounts : c = Cardinality(Moved)
        /\ Len(files_to_move) > 0 => ReportedCounts /= {}

\* the first file has no readable time, the second is not moved, the third
\* is moved
C23_Witness ==
    /\ MoveEnded
    /\ Len(walk[1]) = 3
    /\ walk[1][1] \in stat_failed
    /\ walk[1][2] \in move_failed
    /\ walk[1][3] \in Moved
    /\ ReportedCounts = {1}

\* -------------------------------------------------------------------- C24
\* C24: if no file under the source folder is older than the timestamp the
\* target directory is not created and no file is moved; in any run the
\* target and its subdirectories are created only as parents of files being
\* moved, into a target that did not exist before the run, so that no move
\* overwrites a file.
C24_FrameEffect ==
    tool = "move" =>
        /\ (\A k \in SourceFiles : mtime[k] >= timestamp) =>
              /\ made_dirs = {}
              /\ at_target = {}
              /\ at_source = SourceFiles
        /\ made_dirs \subseteq UNION { 0..DirOf(k) : k \in Attempted }
        /\ at_target /= {} =>
              /\ targetArg /= "exists"
              /\ target_dir \notin siblings
              /\ \A p \in at_target : p[1] = target_dir
        /\ Cardinality(at_target) = Cardinality(Moved)

\* a run over files none of which is older, and that has an existing
\* numbered sibling, has ended
C24_Witness ==
    /\ MoveEnded /\ targetArg = "none"
    /\ siblings /= {}
    /\ Len(walk[1]) = 2
    /\ \A k \in SourceFiles : mtime[k] >= timestamp
    /\ stat_failed = {}

\* -------------------------------------------------------------------- C22
\* C22: when export_to_excel returns, every temporary thumbnail file made
\* during the call has been deleted, a thumbnail whose insertion into the
\* sheet failed and thumbnails of preview images with the same base name
\* included: no thumbnail file outlives the export.
C22_ThumbnailCleanup ==
    (pc = "done" /\ previews) => temp_exist = {}

\* the thumbnails that export_to_excel has put on its list are gone when it
\* returns
C22_TrackedRemoved ==
    (pc = "done" /\ previews) => temp_exist \cap SeqSet(temp_files) = {}

====
